---- MODULE Spec2Model ----
(***************************************************************************)
(* A model of minitorch's strided tensor indexing layer                    *)
(* (src/minitorch/tensor_data.py) and of ScalarFunction.apply              *)
(* (src/minitorch/scalar_functions.py).                                    *)
(*                                                                         *)
(* Python sequences are 0-based, TLA+ sequences 1-based: dimension d of    *)
(* the source is position d+1 of a sequence here.  A permutation `order`   *)
(* keeps the source's 0-based entries.                                     *)
(***************************************************************************)
EXTENDS Integers, Sequences, FiniteSets, TLC

VARIABLES
    \* ---- TensorData.indices() of one tensor (SpecIndices)
    ipc,          \* "idle" | "created" | "iter" | "done": position of the generator
    ishape,       \* self.shape of the tensor being enumerated
    istrides,     \* self.strides of that tensor
    lshape,       \* the generator's local lshape
    out_index,    \* the generator's local out_index buffer
    ordinal,      \* the next value of the generator's loop variable i
    stop,         \* the generator's range(self.size): its stop
    yielded,      \* the coordinates yielded so far, in order
    \* ---- one call of shape_broadcast (SpecShapeBroadcast)
    spc,          \* "call" | "done"
    shape1,       \* argument shape1
    shape2,       \* argument shape2
    sret,         \* the outcome: [kind, shape]
    \* ---- one call of broadcast_index (SpecBroadcastIndex)
    bpc,          \* "call" | "done"
    big_index,    \* argument big_index
    big_shape,    \* argument big_shape
    bshape,       \* argument shape
    bout_arg,     \* argument out_index, as passed in
    bret,         \* the outcome: [kind, out], out the content of out_index afterwards
    \* ---- TensorData instances and their buffers (SpecViews, SpecAccess)
    storages,     \* the buffers, by identity: position = identity
    cuda,         \* per buffer: TRUE for a device array, FALSE for a numpy array
    tensors,      \* the TensorData instances, by identity: [storage, shape, strides]
    origin,       \* per instance, the permute call that returned it: [src, order]
    rebound,      \* per instance, the number of instances there were when to_cuda_
                  \* replaced its buffer; 0 if it never did
    vret,         \* SpecViews: the last call and its outcome: [op, kind]
    \* ---- one index / get / set call on a tensor (SpecAccess)
    apc,          \* "call" | "done"
    acall,        \* the call made: [op, key, val]
    aret,         \* its outcome: [kind, val]
    \* ---- Scalar values built by ScalarFunction.apply (SpecScalar)
    scalars,      \* the Scalar objects in creation order: [data, history]
    contexts,     \* the Context objects in creation order: their saved_values
    fcall,        \* the last apply call: [fn, vals]
    fret          \* its outcome: [kind, result], result the Scalar returned

ivars == <<ipc, ishape, istrides, lshape, out_index, ordinal, stop, yielded>>
svars == <<spc, shape1, shape2, sret>>
bvars == <<bpc, big_index, big_shape, bshape, bout_arg, bret>>
tvars == <<storages, cuda, tensors, origin, rebound, vret>>
avars == <<apc, acall, aret>>
fvars == <<scalars, contexts, fcall, fret>>
vars == <<ivars, svars, bvars, tvars, avars, fvars>>

\* ------------------------------------------------------------------ bounds
\* SpecIndices: shapes of at most IMaxDims dimensions, each of size 1..IMaxDim.
IMaxDims == 3
IMaxDim == 3
\* SpecShapeBroadcast: shapes of at most SMaxDims dimensions, each of size 0..SMaxDim.
SMaxDims == 2
SMaxDim == 5
\* SpecBroadcastIndex: big_shape of at most BMaxDims dimensions, shape of at most
\* BMaxDims + 1, each dimension of size 1..BMaxDim.
BMaxDims == 2
BMaxDim == 2
\* SpecViews: shapes of at most VMaxDims dimensions, each of size 1..VMaxDim, over
\* buffers of at most VMaxSize numbers; at most VMaxTensors instances in all.
VMaxDims == 2
VMaxDim == 2
VMaxSize == 2
VMaxTensors == 2
\* SpecRoundTrip: shapes of at most RMaxDims dimensions, each of size 1..RMaxDim.
RMaxDims == 3
RMaxDim == 2
\* SpecAccess: shapes of at most AMaxDims dimensions, each of size 1..AMaxDim.
AMaxDims == 2
AMaxDim == 2
\* SpecScalar: at most FMaxScalars Scalar objects.
FMaxScalars == 4
\* SpecLayout: shapes of at most LMaxDims dimensions, each of size 1..LMaxDim, with
\* at most LMaxSize elements; at most LMaxTensors instances.
LMaxDims == 2
LMaxDim == 2
LMaxSize == 2
LMaxTensors == 2

\* ----------------------------------------------------------------- helpers
\* Tuples over S of length 0..n.
SeqsUpTo(S, n) == UNION {[1..k -> S] : k \in 0..n}

\* tuple(reversed(s))
Reverse(s) == [k \in 1..Len(s) |-> s[Len(s) + 1 - k]]

\* operators.prod: the product of a sequence of numbers, 1 for the empty one.
RECURSIVE prod(_)
prod(s) == IF Len(s) = 0 THEN 1 ELSE s[1] * prod(Tail(s))

\* The largest entry of a sequence of naturals (0 for the empty one).
\* ValidCoords: the coordinates within the bounds of `shape`, one entry per
\* dimension, each in [0, shape[d]).
RECURSIVE SeqMax(_)
SeqMax(s) == IF Len(s) = 0 THEN 0
             ELSE IF s[1] > SeqMax(Tail(s)) THEN s[1] ELSE SeqMax(Tail(s))

ValidCoords(shape) ==
    {c \in [1..Len(shape) -> 0..SeqMax(shape)] : \A d \in 1..Len(shape) : c[d] < shape[d]}

\* ------------------------------------------------------- index_to_position
\* Sequence values as Python sees them: `ndim` is 1 for a sized sequence (a tuple,
\* a list, a 1-d array) and 0 for a 0-d array, which has an item but no len().
Sized(s) == [ndim |-> 1, data |-> s]
Unsized(i) == [ndim |-> 0, data |-> <<i>>]

\* sum(index * stride for index, stride in zip(index, strides))
RECURSIVE dot(_, _)
dot(index, strides) ==
    IF Len(index) = 0 \/ Len(strides) = 0 THEN 0
    ELSE index[1] * strides[1] + dot(Tail(index), Tail(strides))

\* The outcome of index_to_position(index, strides): kind "ok" with the position,
\* "IndexingError" when the lengths differ, "TypeError" when len(index) is taken of
\* a 0-d array.
index_to_position(index, strides) ==
    IF index.ndim = 0
    THEN [kind |-> "TypeError", pos |-> -1]
    ELSE IF Len(index.data) # Len(strides)
         THEN [kind |-> "IndexingError", pos |-> -1]
         ELSE [kind |-> "ok", pos |-> dot(index.data, strides)]

\* ---------------------------------------------------------------- to_index
\* for i in range(len(shape) - 1, -1, -1):
\*     out_index[i] = ordinal % shape[i]; ordinal = ordinal // shape[i]
\* `i` is the 1-based position of the dimension being written.
RECURSIVE to_index_loop(_, _, _, _)
to_index_loop(i, ord, shape, out) ==
    IF i < 1 THEN out
    ELSE to_index_loop(i - 1, ord \div shape[i], shape,
                       [out EXCEPT ![i] = ord % shape[i]])

\* A to_index that forgets to divide the ordinal down after each dimension.
RECURSIVE to_index_nodiv_loop(_, _, _, _)
to_index_nodiv_loop(i, ord, shape, out) ==
    IF i < 1 THEN out
    ELSE to_index_nodiv_loop(i - 1, ord, shape, [out EXCEPT ![i] = ord % shape[i]])

to_index_nodiv(ord, shape, out) == to_index_nodiv_loop(Len(shape), ord, shape, out)

\* The value of out_index after to_index(ord, shape, out).
to_index(ord, shape, out) == to_index_loop(Len(shape), ord, shape, out)

\* ------------------------------------------------------ strides_from_shape
\* layout = [1]; offset = 1
\* for s in reversed(shape): layout.append(s * offset); offset = s * offset
\* `k` is the 1-based position in `shape` of the next s, running right to left.
RECURSIVE layout_loop(_, _, _, _)
layout_loop(shape, k, layout, offset) ==
    IF k < 1 THEN layout
    ELSE layout_loop(shape, k - 1, Append(layout, shape[k] * offset), shape[k] * offset)

\* A strides_from_shape that returns the layout without reversing it.
strides_unreversed(shape) ==
    LET layout == layout_loop(shape, Len(shape), <<1>>, 1)
    IN  SubSeq(layout, 1, Len(layout) - 1)

\* return tuple(reversed(layout[:-1]))
strides_from_shape(shape) ==
    LET layout == layout_loop(shape, Len(shape), <<1>>, 1)
    IN  Reverse(SubSeq(layout, 1, Len(layout) - 1))

\* --------------------------------------------------------- shape_broadcast
\* tuple(1 for _ in range(n))
Ones(n) == [k \in 1..n |-> 1]

Max(a, b) == IF a >= b THEN a ELSE b

\* for dim1, dim2 in zip(shape1, shape2):
\*     if dim1 != dim2 and not (dim1 == 1 or dim2 == 1): raise IndexingError
\*     broadcasted_shape.append(max(dim1, dim2))
\* `k` is the 1-based position of the pair, `acc` is broadcasted_shape so far.
RECURSIVE broadcast_zip(_, _, _, _)
broadcast_zip(s1, s2, k, acc) ==
    IF k > Len(s1) \/ k > Len(s2) THEN [kind |-> "ok", shape |-> acc]
    ELSE IF s1[k] # s2[k] /\ ~(s1[k] = 1 \/ s2[k] = 1)
         THEN [kind |-> "IndexingError", shape |-> <<>>]
         ELSE broadcast_zip(s1, s2, k + 1, Append(acc, Max(s1[k], s2[k])))

\* A shape_broadcast that pads the shorter shape on the right.
shape_broadcast_padright(s1, s2) ==
    LET n1 == Len(s1)
        n2 == Len(s2)
        p1 == IF n1 < n2 THEN s1 \o Ones(n2 - n1) ELSE s1
        p2 == IF n1 > n2 THEN s2 \o Ones(n1 - n2) ELSE s2
    IN  broadcast_zip(p1, p2, 1, <<>>)

\* The outcome of shape_broadcast(s1, s2): kind "ok" with the broadcast shape, or
\* kind "IndexingError" (no shape is returned; the field is then <<>>).
shape_broadcast(s1, s2) ==
    LET number_of_dims1 == Len(s1)
        number_of_dims2 == Len(s2)
        dims_to_pad == IF number_of_dims1 >= number_of_dims2
                       THEN number_of_dims1 - number_of_dims2
                       ELSE number_of_dims2 - number_of_dims1
        p1 == IF number_of_dims1 # number_of_dims2 /\ number_of_dims1 < number_of_dims2
              THEN Ones(dims_to_pad) \o s1 ELSE s1
        p2 == IF number_of_dims1 # number_of_dims2 /\ ~(number_of_dims1 < number_of_dims2)
              THEN Ones(dims_to_pad) \o s2 ELSE s2
    IN  broadcast_zip(p1, p2, 1, <<>>)

\* --------------------------------------------------------- broadcast_index
\* The mapping loop of broadcast_index: out_index[dim] for dim < len(shape) is
\* big_index[dim + pad_amount] where padded_shape[dim + pad_amount] > 1 and 0
\* elsewhere; entries of out_index beyond len(shape) are not written.
broadcast_map(big_idx, padded_shape, pad_amount, n, out) ==
    [d \in 1..Len(out) |->
        IF d <= n
        THEN IF padded_shape[d + pad_amount] > 1 THEN big_idx[d + pad_amount] ELSE 0
        ELSE out[d]]

\* A broadcast_index that reads big_index without the padding offset.
broadcast_index_nopad(big_idx, bigshape, shape, out) ==
    IF Len(shape) = 0 THEN [kind |-> "ok", out |-> out]
    ELSE LET pad_amount == Len(bigshape) - Len(shape) IN
         IF pad_amount < 0 THEN [kind |-> "ValueError", out |-> out]
         ELSE LET padded_shape == Ones(pad_amount) \o shape IN
              IF \E dim \in 1..Len(bigshape) :
                    padded_shape[dim] # 1 /\ padded_shape[dim] # bigshape[dim]
              THEN [kind |-> "ValueError", out |-> out]
              ELSE [kind |-> "ok",
                    out |-> [d \in 1..Len(out) |->
                               IF d <= Len(shape)
                               THEN IF padded_shape[d + pad_amount] > 1
                                    THEN big_idx[d] ELSE 0
                               ELSE out[d]]]

\* The outcome of broadcast_index(big_index, big_shape, shape, out_index): the kind
\* ("ok", or the exception raised) and the content of out_index afterwards.
broadcast_index(big_idx, bigshape, shape, out) ==
    IF Len(shape) = 0 THEN [kind |-> "ok", out |-> out]
    ELSE LET pad_amount == Len(bigshape) - Len(shape) IN
         IF pad_amount < 0 THEN [kind |-> "ValueError", out |-> out]
         ELSE LET padded_shape == Ones(pad_amount) \o shape IN
              IF \E dim \in 1..Len(bigshape) :
                    padded_shape[dim] # 1 /\ padded_shape[dim] # bigshape[dim]
              THEN [kind |-> "ValueError", out |-> out]
              ELSE [kind |-> "ok",
                    out |-> broadcast_map(big_idx, padded_shape, pad_amount, Len(shape), out)]

\* -------------------------------------------------------------- TensorData
\* An optional `strides` argument of the constructor.
NoStrides == [given |-> FALSE, val |-> <<>>]
Strides(st) == [given |-> TRUE, val |-> st]

\* A TensorData.__init__ without the final check of len(storage) against the size.
TensorData_init_nosize(storage_len, shape, sarg) ==
    LET strides == IF sarg.given THEN sarg.val ELSE strides_from_shape(shape) IN
    IF Len(strides) # Len(shape)
    THEN [kind |-> "IndexingError", shape |-> <<>>, strides |-> <<>>]
    ELSE [kind |-> "ok", shape |-> shape, strides |-> strides]

\* self.dims, assigned once by __init__: len(strides).
TensorData_dims(self) == Len(self.strides)

\* TensorData.__init__ on a storage of `storage_len` numbers: kind "ok" with the
\* shape and strides the instance gets, "IndexingError" when len(strides) differs
\* from len(shape), "AssertionError" when len(storage) differs from prod(shape).
TensorData_init(storage_len, shape, sarg) ==
    LET strides == IF sarg.given THEN sarg.val ELSE strides_from_shape(shape) IN
    IF Len(strides) # Len(shape)
    THEN [kind |-> "IndexingError", shape |-> <<>>, strides |-> <<>>]
    ELSE IF storage_len # prod(shape)
         THEN [kind |-> "AssertionError", shape |-> <<>>, strides |-> <<>>]
         ELSE [kind |-> "ok", shape |-> shape, strides |-> strides]

\* The `storage` argument of __init__: a numpy array is kept as the buffer (TRUE);
\* anything else, a list or a device array, is copied into a new numpy array (FALSE).
TensorData_keeps_storage(is_ndarray) == is_ndarray

\* to_cuda_ on an instance whose buffer is a device array (is_cuda) or not: "noop"
\* when it is one already; otherwise numba.cuda.to_device copies the buffer to the
\* device and the instance holds the copy ("rebind"), or raises when there is no
\* CUDA device ("raise").
TensorData_to_cuda_(is_cuda, available) ==
    IF is_cuda THEN "noop"
    ELSE IF available THEN "rebind"
    ELSE "raise"

\* An index argument: a single int, or a tuple of ints.
IntKey(i) == [int |-> TRUE, items |-> <<i>>]
TupleKey(c) == [int |-> FALSE, items |-> c]

\* array([index]) for an int, array(index) for a tuple: always 1-d.
aindex_of(key) == Sized(key.items)

\* array(index): 0-d for an int, 1-d for a tuple.
np_array(key) == IF key.int THEN Unsized(key.items[1]) ELSE Sized(key.items)

\* A TensorData.index without the check for negative coordinates.
TensorData_index_noneg(self, key) ==
    LET aindex == aindex_of(key) IN
    IF Len(aindex.data) # Len(self.shape)
    THEN [kind |-> "IndexingError", pos |-> -1]
    ELSE IF \E i \in 1..Len(aindex.data) : aindex.data[i] >= self.shape[i]
         THEN [kind |-> "IndexingError", pos |-> -1]
         ELSE index_to_position(np_array(key), self.strides)

\* The outcome of self.index(key): the checks on aindex, then
\* index_to_position(array(index), self._strides).
TensorData_index(self, key) ==
    LET aindex == aindex_of(key) IN
    IF Len(aindex.data) # Len(self.shape)
    THEN [kind |-> "IndexingError", pos |-> -1]
    ELSE IF \E i \in 1..Len(aindex.data) :
               aindex.data[i] >= self.shape[i] \/ aindex.data[i] < 0
         THEN [kind |-> "IndexingError", pos |-> -1]
         ELSE index_to_position(np_array(key), self.strides)

\* numpy's buffer[pos]: the 1-based cell, 0 when pos is out of range (IndexError);
\* a negative pos counts from the end.
Cell(buffer, pos) ==
    IF 0 <= pos /\ pos < Len(buffer) THEN pos + 1
    ELSE IF pos < 0 /\ -pos <= Len(buffer) THEN Len(buffer) + pos + 1
    ELSE 0

\* The outcome of self.get(key) with the buffers `bufs`: [kind, val].
TensorData_get(bufs, self, key) ==
    LET p == TensorData_index(self, key)
        buffer == bufs[self.storage]
    IN  IF p.kind # "ok" THEN [kind |-> p.kind, val |-> 0]
        ELSE IF Cell(buffer, p.pos) = 0 THEN [kind |-> "IndexError", val |-> 0]
        ELSE [kind |-> "ok", val |-> buffer[Cell(buffer, p.pos)]]

\* The outcome of self.set(key, val) with the buffers `bufs`: [kind, bufs], bufs the
\* buffers afterwards.
TensorData_set(bufs, self, key, val) ==
    LET p == TensorData_index(self, key)
        buffer == bufs[self.storage]
    IN  IF p.kind # "ok" THEN [kind |-> p.kind, bufs |-> bufs]
        ELSE IF Cell(buffer, p.pos) = 0 THEN [kind |-> "IndexError", bufs |-> bufs]
        ELSE [kind |-> "ok",
              bufs |-> [bufs EXCEPT ![self.storage][Cell(buffer, p.pos)] = val]]

\* tuple(range(n))
Range(n) == [k \in 1..n |-> k - 1]

\* list(sorted(order)) == list(range(len(self.shape)))
IsPermutation(order, n) ==
    /\ Len(order) = n
    /\ {order[k] : k \in 1..Len(order)} = {k - 1 : k \in 1..n}

\* tuple(seq[i] for i in order)
Pick(seq, order) == [k \in 1..Len(order) |-> seq[order[k] + 1]]

\* A permute that gives the new instance the contiguous strides of its shape.
TensorData_permute_contiguous(storage_len, self, order) ==
    IF ~IsPermutation(order, Len(self.shape))
    THEN [kind |-> "AssertionError", same |-> FALSE, shape |-> <<>>, strides |-> <<>>]
    ELSE IF order = Range(Len(self.shape))
         THEN [kind |-> "ok", same |-> TRUE, shape |-> self.shape, strides |-> self.strides]
         ELSE LET made == TensorData_init(storage_len, Pick(self.shape, order), NoStrides)
              IN  [kind |-> made.kind, same |-> FALSE,
                   shape |-> made.shape, strides |-> made.strides]

\* A permute that reorders the shape and keeps the strides as they are.
TensorData_permute_keepstrides(storage_len, self, order) ==
    IF ~IsPermutation(order, Len(self.shape))
    THEN [kind |-> "AssertionError", same |-> FALSE, shape |-> <<>>, strides |-> <<>>]
    ELSE IF order = Range(Len(self.shape))
         THEN [kind |-> "ok", same |-> TRUE, shape |-> self.shape, strides |-> self.strides]
         ELSE LET made == TensorData_init(storage_len, Pick(self.shape, order),
                                          Strides(self.strides))
              IN  [kind |-> made.kind, same |-> FALSE,
                   shape |-> made.shape, strides |-> made.strides]

\* The outcome of self.permute(*order), self's buffer holding `storage_len` numbers:
\* [kind, same, shape, strides]; `same` when self itself is returned, and otherwise
\* a new instance on self's buffer with that shape and those strides.
TensorData_permute(storage_len, self, order) ==
    IF ~IsPermutation(order, Len(self.shape))
    THEN [kind |-> "AssertionError", same |-> FALSE, shape |-> <<>>, strides |-> <<>>]
    ELSE IF order = Range(Len(self.shape))
         THEN [kind |-> "ok", same |-> TRUE, shape |-> self.shape, strides |-> self.strides]
         ELSE LET made == TensorData_init(storage_len, Pick(self.shape, order),
                                          Strides(Pick(self.strides, order)))
              IN  [kind |-> made.kind, same |-> FALSE,
                   shape |-> made.shape, strides |-> made.strides]

\* ------------------------------------------------- idle parts of the state
\* Each specification drives one part of the state and leaves the others idle.
IdleIndices ==
    /\ ipc = "off"
    /\ ishape = <<>>
    /\ istrides = <<>>
    /\ lshape = <<>>
    /\ out_index = <<>>
    /\ ordinal = 0
    /\ stop = 0
    /\ yielded = <<>>

IdleShapeBroadcast ==
    /\ spc = "off"
    /\ shape1 = <<>>
    /\ shape2 = <<>>
    /\ sret = [kind |-> "none", shape |-> <<>>]

IdleBroadcastIndex ==
    /\ bpc = "off"
    /\ big_index = <<>>
    /\ big_shape = <<>>
    /\ bshape = <<>>
    /\ bout_arg = <<>>
    /\ bret = [kind |-> "none", out |-> <<>>]

IdleTensors ==
    /\ storages = <<>>
    /\ cuda = <<>>
    /\ tensors = <<>>
    /\ origin = <<>>
    /\ rebound = <<>>
    /\ vret = [op |-> "off", kind |-> "none"]

IdleAccess ==
    /\ apc = "off"
    /\ acall = [op |-> "none", t |-> 0, key |-> TupleKey(<<>>), val |-> 0]
    /\ aret = [kind |-> "none", val |-> 0]

IdleScalars ==
    /\ scalars = <<>>
    /\ contexts = <<>>
    /\ fcall = [fn |-> "none", vals |-> <<>>]
    /\ fret = [kind |-> "none", result |-> 0]

\* ============================================================ SpecIndices
\* One contiguous TensorData (strides=None at construction) and a generator
\* returned by its indices().
IShapes == SeqsUpTo(1..IMaxDim, IMaxDims)

InitIndices ==
    /\ ipc = "idle"
    /\ ishape \in IShapes
    /\ istrides = strides_from_shape(ishape)
    /\ lshape = <<>>
    /\ out_index = <<>>
    /\ ordinal = 0
    /\ stop = 0
    /\ yielded = <<>>
    /\ IdleShapeBroadcast
    /\ IdleBroadcastIndex
    /\ IdleTensors
    /\ IdleAccess
    /\ IdleScalars

\* indices() is called (again): a generator object is returned and no line of the
\* body has run; its locals are unbound.
IndicesCall ==
    /\ ipc \in {"idle", "done"}
    /\ ipc' = "created"
    /\ lshape' = <<>>
    /\ out_index' = <<>>
    /\ ordinal' = 0
    /\ stop' = 0
    /\ yielded' = <<>>
    /\ UNCHANGED <<ishape, istrides, svars, bvars, tvars, avars, fvars>>

\* The generator's locals as a next() finds them: the first next() runs the body up
\* to the loop (array(self.shape) twice, range(self.size)); a later one resumes
\* after the yield.
Resumed ==
    IF ipc = "created"
    THEN [lshape |-> ishape, out_index |-> ishape, stop |-> prod(ishape), i |-> 0]
    ELSE [lshape |-> lshape, out_index |-> out_index, stop |-> stop, i |-> ordinal]

\* next() on the generator, up to the next yield: one pass of the loop.
IndicesNext ==
    /\ ipc \in {"created", "iter"}
    /\ Resumed.i < Resumed.stop
    /\ ipc' = "iter"
    /\ lshape' = Resumed.lshape
    /\ stop' = Resumed.stop
    /\ out_index' = to_index(Resumed.i, Resumed.lshape, Resumed.out_index)
    /\ yielded' = Append(yielded, out_index')
    /\ ordinal' = Resumed.i + 1
    /\ UNCHANGED <<ishape, istrides, svars, bvars, tvars, avars, fvars>>

\* next() once the range is exhausted: the generator ends.
IndicesStop ==
    /\ ipc \in {"created", "iter"}
    /\ Resumed.i >= Resumed.stop
    /\ ipc' = "done"
    /\ lshape' = Resumed.lshape
    /\ stop' = Resumed.stop
    /\ out_index' = Resumed.out_index
    /\ ordinal' = Resumed.i
    /\ UNCHANGED <<ishape, istrides, yielded, svars, bvars, tvars, avars, fvars>>

NextIndices == IndicesCall \/ IndicesNext \/ IndicesStop

SpecIndices == InitIndices /\ [][NextIndices]_vars

\* C1: every coordinate yielded by indices() lies within the bounds of the shape,
\* no coordinate is yielded twice, and once the enumeration has ended every valid
\* coordinate of the shape has been yielded.
C1_ToIndexBijection ==
    /\ \A k \in 1..Len(yielded) : yielded[k] \in ValidCoords(ishape)
    /\ Cardinality({yielded[k] : k \in 1..Len(yielded)}) = Len(yielded)
    /\ ipc = "done" => {yielded[k] : k \in 1..Len(yielded)} = ValidCoords(ishape)

\* A full enumeration of a shape with several dimensions of size above 1.
C1_Witness ==
    /\ ipc = "done"
    /\ Len(ishape) >= 2
    /\ \A d \in 1..Len(ishape) : ishape[d] >= 2
    /\ Len(yielded) = prod(ishape)

\* The buffer positions of the coordinates yielded so far, under the contiguous strides.
YieldedPositions == [k \in 1..Len(yielded) |-> index_to_position(Sized(yielded[k]), istrides)]

\* C2: with strides = strides_from_shape(S), the positions of the coordinates yielded
\* by indices() are all in 0..size-1, no position repeats, and once the enumeration
\* has ended they are exactly 0..size-1.
C2_ContiguousCoversOnce ==
    /\ \A k \in 1..Len(yielded) :
          /\ YieldedPositions[k].kind = "ok"
          /\ YieldedPositions[k].pos \in 0..(prod(ishape) - 1)
    /\ Cardinality({YieldedPositions[k].pos : k \in 1..Len(yielded)}) = Len(yielded)
    /\ ipc = "done" =>
          {YieldedPositions[k].pos : k \in 1..Len(yielded)} = 0..(prod(ishape) - 1)

\* A full enumeration of a shape whose dimensions differ in size, so that the order
\* of the strides matters.
C2_Witness ==
    /\ ipc = "done"
    /\ Len(ishape) >= 2
    /\ ishape[1] # ishape[Len(ishape)]
    /\ \A d \in 1..Len(ishape) : ishape[d] >= 2
    /\ Len(yielded) = prod(ishape)

\* ===================================================== SpecShapeBroadcast
\* One call shape_broadcast(shape1, shape2) on any two shapes.
SShapes == SeqsUpTo(0..SMaxDim, SMaxDims)

InitShapeBroadcast ==
    /\ spc = "call"
    /\ shape1 \in SShapes
    /\ shape2 \in SShapes
    /\ sret = [kind |-> "none", shape |-> <<>>]
    /\ IdleIndices
    /\ IdleBroadcastIndex
    /\ IdleTensors
    /\ IdleAccess
    /\ IdleScalars

ShapeBroadcastCall ==
    /\ spc = "call"
    /\ sret' = shape_broadcast(shape1, shape2)
    /\ spc' = "done"
    /\ UNCHANGED <<shape1, shape2, ivars, bvars, tvars, avars, fvars>>

NextShapeBroadcast == ShapeBroadcastCall

SpecShapeBroadcast == InitShapeBroadcast /\ [][NextShapeBroadcast]_vars

\* `s` right-aligned in n dimensions: padded on the left with 1s.
RightAligned(s, n) == [k \in 1..n |-> IF k <= n - Len(s) THEN 1 ELSE s[k - (n - Len(s))]]

\* C3: shape_broadcast right-aligns the two shapes, padding the shorter on the left
\* with 1s; if every aligned pair is equal or contains a 1 it returns the shape of
\* length max(len(shape1), len(shape2)) whose entries are the max of each pair, and
\* otherwise it raises IndexingError and returns no shape.  In particular
\* (5,3),(3,) gives (5,3); (1,3),(5,1) gives (5,3); (2,3),(4,3) raises.
C3_ShapeBroadcast ==
    spc = "done" =>
        LET n == Max(Len(shape1), Len(shape2))
            a == RightAligned(shape1, n)
            b == RightAligned(shape2, n)
        IN  /\ IF \A k \in 1..n : a[k] = b[k] \/ a[k] = 1 \/ b[k] = 1
               THEN /\ sret.kind = "ok"
                    /\ Len(sret.shape) = n
                    /\ \A k \in 1..n : sret.shape[k] = Max(a[k], b[k])
               ELSE sret = [kind |-> "IndexingError", shape |-> <<>>]
            /\ (shape1 = <<5, 3>> /\ shape2 = <<3>>) =>
                  sret = [kind |-> "ok", shape |-> <<5, 3>>]
            /\ (shape1 = <<1, 3>> /\ shape2 = <<5, 1>>) =>
                  sret = [kind |-> "ok", shape |-> <<5, 3>>]
            /\ (shape1 = <<2, 3>> /\ shape2 = <<4, 3>>) => sret.kind = "IndexingError"

\* The call on shapes of different lengths that broadcast, dimension 5 included.
C3_Witness ==
    /\ spc = "done"
    /\ shape1 = <<5, 3>>
    /\ shape2 = <<3>>
    /\ sret.kind = "ok"

\* ===================================================== SpecBroadcastIndex
\* One call broadcast_index(big_index, big_shape, shape, out_index): big_index is a
\* coordinate of big_shape, out_index a buffer of at least len(shape) entries.
BBigShapes == SeqsUpTo(1..BMaxDim, BMaxDims)
BShapes == SeqsUpTo(1..BMaxDim, BMaxDims + 1)

InitBroadcastIndex ==
    /\ bpc = "call"
    /\ big_shape \in BBigShapes
    /\ big_index \in ValidCoords(big_shape)
    /\ bshape \in BShapes
    /\ \E extra \in 0..1 : bout_arg = [k \in 1..(Len(bshape) + extra) |-> -1]
    /\ bret = [kind |-> "none", out |-> <<>>]
    /\ IdleIndices
    /\ IdleShapeBroadcast
    /\ IdleTensors
    /\ IdleAccess
    /\ IdleScalars

BroadcastIndexCall ==
    /\ bpc = "call"
    /\ bret' = broadcast_index(big_index, big_shape, bshape, bout_arg)
    /\ bpc' = "done"
    /\ UNCHANGED <<big_index, big_shape, bshape, bout_arg, ivars, svars, tvars, avars, fvars>>

NextBroadcastIndex == BroadcastIndexCall

SpecBroadcastIndex == InitBroadcastIndex /\ [][NextBroadcastIndex]_vars

\* `shape` is broadcast-compatible with `bigshape`: it has no more dimensions and
\* each of its dimensions is 1 or equals the aligned dimension of bigshape.
BroadcastCompatible(shape, bigshape) ==
    /\ Len(shape) <= Len(bigshape)
    /\ \A d \in 1..Len(shape) :
          shape[d] = 1 \/ shape[d] = bigshape[d + Len(bigshape) - Len(shape)]

\* C7: whenever shape is not broadcast-compatible with big_shape, broadcast_index
\* fails with an IndexingError.
C7_IncompatibleRaisesIndexingError ==
    (bpc = "done" /\ ~BroadcastCompatible(bshape, big_shape)) => bret.kind = "IndexingError"

\* C10: for a shape that is broadcast-compatible with big_shape, broadcast_index
\* succeeds and sets out_index[d] = 0 where shape[d] = 1 and
\* out_index[d] = big_index[d + pad] elsewhere, so that out_index holds a valid
\* coordinate of shape; entries beyond len(shape) keep their content, and with a
\* zero-dimensional shape out_index is left untouched.
C10_BroadcastIndexProjects ==
    (bpc = "done" /\ BroadcastCompatible(bshape, big_shape)) =>
        LET pad == Len(big_shape) - Len(bshape) IN
        /\ bret.kind = "ok"
        /\ Len(bret.out) = Len(bout_arg)
        /\ \A d \in 1..Len(bshape) :
              bret.out[d] = IF bshape[d] = 1 THEN 0 ELSE big_index[d + pad]
        /\ SubSeq(bret.out, 1, Len(bshape)) \in ValidCoords(bshape)
        /\ \A d \in (Len(bshape) + 1)..Len(bout_arg) : bret.out[d] = bout_arg[d]
        /\ Len(bshape) = 0 => bret.out = bout_arg

\* A projection that drops a leading big dimension and copies the coordinate of the
\* aligned dimension, which differs from the coordinate of the dropped one.
C10_Witness ==
    /\ bpc = "done"
    /\ bret.kind = "ok"
    /\ Len(bshape) = 1
    /\ Len(big_shape) = 2
    /\ bshape[1] > 1
    /\ big_index[1] = 0
    /\ big_index[2] = 1
    /\ bret.out[1] = 1

\* ============================================================== SpecViews
\* TensorData instances are constructed from lists of zeros, permuted, written
\* through and moved to the device by to_cuda_, in any interleaving.
VVals == {0, 1}
VShapes == {sh \in SeqsUpTo(1..VMaxDim, VMaxDims) : prod(sh) <= VMaxSize}

\* The orders tried on a tensor of n dimensions: every permutation of 0..n-1, and
\* one tuple that is none (it is one entry too long).
Orders(n) == {o \in [1..n -> 0..(n - 1)] : IsPermutation(o, n)} \cup {[k \in 1..(n + 1) |-> 0]}

\* The keys written through a tensor: every valid coordinate, and the shape itself,
\* which is out of range in each dimension.
VKeys(shape) == {TupleKey(c) : c \in ValidCoords(shape) \cup {shape}}

\* The strides arguments tried for a shape: none, the column-major layout, and a
\* tuple one entry too long.
StridesArgs(shape) ==
    {NoStrides,
     Strides(Reverse(strides_from_shape(shape))),
     Strides(Append(strides_from_shape(shape), 1))}

\* The list lengths tried for a shape: the right one, and one too long.
StorageLens(shape) == {prod(shape), prod(shape) + 1}

InitViews ==
    /\ storages = <<>>
    /\ cuda = <<>>
    /\ tensors = <<>>
    /\ origin = <<>>
    /\ rebound = <<>>
    /\ vret = [op |-> "none", kind |-> "none"]
    /\ IdleIndices
    /\ IdleShapeBroadcast
    /\ IdleBroadcastIndex
    /\ IdleAccess
    /\ IdleScalars

\* TensorData([0.0] * n, shape, strides): array(storage) is a new buffer; the
\* instance exists only if __init__ returns.
Construct(n, shape, sarg) ==
    /\ LET made == TensorData_init(n, shape, sarg) IN
       /\ vret' = [op |-> "construct", kind |-> made.kind]
       /\ IF made.kind = "ok"
          THEN /\ storages' = Append(storages, [k \in 1..n |-> 0])
               /\ cuda' = Append(cuda, FALSE)
               /\ tensors' = Append(tensors, [storage |-> Len(storages) + 1,
                                              shape |-> made.shape,
                                              strides |-> made.strides])
               /\ origin' = Append(origin, [src |-> 0, order |-> <<>>])
               /\ rebound' = Append(rebound, 0)
          ELSE UNCHANGED <<storages, cuda, tensors, origin, rebound>>
    /\ UNCHANGED <<ivars, svars, bvars, avars, fvars>>

\* tensors[t].permute(*order): the new instance is built by TensorData(self._storage,
\* ...), which keeps a numpy array and copies a device array into a new numpy array.
Permute(t, order) ==
    LET self == tensors[t]
        got == TensorData_permute(Len(storages[self.storage]), self, order)
        kept == TensorData_keeps_storage(~cuda[self.storage])
    IN  /\ vret' = [op |-> "permute", kind |-> got.kind]
        /\ IF got.kind = "ok" /\ ~got.same
           THEN /\ tensors' = Append(tensors,
                                     [storage |-> IF kept THEN self.storage
                                                  ELSE Len(storages) + 1,
                                      shape |-> got.shape,
                                      strides |-> got.strides])
                /\ origin' = Append(origin, [src |-> t, order |-> order])
                /\ rebound' = Append(rebound, 0)
                /\ IF kept
                   THEN UNCHANGED <<storages, cuda>>
                   ELSE /\ storages' = Append(storages, storages[self.storage])
                        /\ cuda' = Append(cuda, FALSE)
           ELSE UNCHANGED <<storages, cuda, tensors, origin, rebound>>
        /\ UNCHANGED <<ivars, svars, bvars, avars, fvars>>

\* tensors[t].set(key, val)
Set(t, key, val) ==
    LET done == TensorData_set(storages, tensors[t], key, val) IN
    /\ vret' = [op |-> "set", kind |-> done.kind]
    /\ storages' = done.bufs
    /\ UNCHANGED <<cuda, tensors, origin, rebound, ivars, svars, bvars, avars, fvars>>

\* tensors[t].to_cuda_(), on a machine with a CUDA device (available) or without.
ToCuda(t, available) ==
    LET self == tensors[t]
        how == TensorData_to_cuda_(cuda[self.storage], available)
    IN  /\ vret' = [op |-> "to_cuda_", kind |-> IF how = "raise" THEN "CudaSupportError" ELSE "ok"]
        /\ IF how = "rebind"
           THEN /\ storages' = Append(storages, storages[self.storage])
                /\ cuda' = Append(cuda, TRUE)
                /\ tensors' = [tensors EXCEPT ![t].storage = Len(storages) + 1]
                /\ rebound' = [rebound EXCEPT ![t] = Len(tensors)]
           ELSE UNCHANGED <<storages, cuda, tensors, rebound>>
        /\ UNCHANGED <<origin, ivars, svars, bvars, avars, fvars>>

NextViews ==
    \/ \E shape \in VShapes :
          \E n \in StorageLens(shape), sarg \in StridesArgs(shape) :
             /\ TensorData_init(n, shape, sarg).kind = "ok" => Len(tensors) < VMaxTensors
             /\ Construct(n, shape, sarg)
    \/ \E t \in 1..Len(tensors) :
          /\ Len(tensors) < VMaxTensors
          /\ \E order \in Orders(Len(tensors[t].shape)) : Permute(t, order)
    \/ \E t \in 1..Len(tensors) :
          \E key \in VKeys(tensors[t].shape), val \in VVals : Set(t, key, val)
    \/ \E t \in 1..Len(tensors), available \in BOOLEAN : ToCuda(t, available)

SpecViews == InitViews /\ [][NextViews]_vars

\* The coordinate c' of the permuted tensor's source: c'[order[i]] = c[i].
SourceCoord(c, order) == [j \in 1..Len(c) |-> c[CHOOSE i \in 1..Len(c) : order[i] = j - 1]]

\* Since v = t.permute(*order) returned, neither t nor v has had its buffer replaced
\* by to_cuda_ (t may have had before).
NotReboundSince(t, v) ==
    /\ rebound[v] = 0
    /\ rebound[t] = 0 \/ rebound[t] < v

\* C4: a view v returned by t.permute(*order) shares t's buffer: in every state
\* reached from the permute call by set calls through any instance, v and t hold the
\* same buffer and v.get(c) equals t.get(c') for every valid coordinate c of v, where
\* c'[order[i]] = c[i].
C4_PermuteSharesBuffer ==
    \A v \in 1..Len(tensors) :
        (origin[v].src # 0 /\ NotReboundSince(origin[v].src, v)) =>
            LET t == origin[v].src IN
            /\ tensors[v].storage = tensors[t].storage
            /\ \A c \in ValidCoords(tensors[v].shape) :
                  TensorData_get(storages, tensors[v], TupleKey(c)) =
                  TensorData_get(storages, tensors[t],
                                 TupleKey(SourceCoord(c, origin[v].order)))

\* A write has just been made through a tensor whose buffer to_cuda_ had replaced
\* before permute returned the view: the tensor reads 1 at (0,1) and the view reads
\* 0 at (1,0).
C4_Witness ==
    /\ vret = [op |-> "set", kind |-> "ok"]
    /\ \E v \in 1..Len(tensors) :
          /\ origin[v].src # 0
          /\ NotReboundSince(origin[v].src, v)
          /\ rebound[origin[v].src] # 0
          /\ origin[v].order = <<1, 0>>
          /\ tensors[v].shape = <<2, 1>>
          /\ TensorData_get(storages, tensors[origin[v].src], TupleKey(<<0, 1>>)) =
                [kind |-> "ok", val |-> 1]
          /\ TensorData_get(storages, tensors[v], TupleKey(<<1, 0>>)) = [kind |-> "ok", val |-> 0]

\* ========================================================== SpecRoundTrip
\* The expression t.permute(*order1).permute(*order2): a tensor t is constructed,
\* to_cuda_ may be called on it, and permute is called on the instance returned
\* last, twice over.
RShapes == SeqsUpTo(1..RMaxDim, RMaxDims)

\* The instance returned last, and how many permutes lie between it and the
\* constructed one.
Last == Len(tensors)
RECURSIVE Depth(_)
Depth(t) == IF origin[t].src = 0 THEN 0 ELSE 1 + Depth(origin[t].src)

NextRoundTrip ==
    \/ /\ storages = <<>>
       /\ \E shape \in RShapes :
             \E n \in StorageLens(shape), sarg \in StridesArgs(shape) : Construct(n, shape, sarg)
    \/ /\ tensors # <<>>
       /\ Depth(Last) <= 1
       /\ \E order \in Orders(Len(tensors[Last].shape)) : Permute(Last, order)
    \/ /\ tensors # <<>>
       /\ Depth(Last) = 0
       /\ \E available \in BOOLEAN : ToCuda(Last, available)

SpecRoundTrip == InitViews /\ [][NextRoundTrip]_vars

\* The inverse of a permutation given with 0-based entries.
InverseOrder(order) ==
    [j \in 1..Len(order) |-> (CHOOSE i \in 1..Len(order) : order[i] = j - 1) - 1]

\* C5: t.permute(*order).permute(*inv), inv the inverse of order, has the shape, the
\* strides and the buffer contents of t; it is on t's buffer when that is a numpy
\* array.
C5_PermuteRoundTrip ==
    \A w \in 1..Len(tensors) :
        (/\ origin[w].src # 0
         /\ origin[origin[w].src].src # 0
         /\ origin[w].order = InverseOrder(origin[origin[w].src].order)) =>
            LET t == origin[origin[w].src].src IN
            /\ tensors[w].shape = tensors[t].shape
            /\ tensors[w].strides = tensors[t].strides
            /\ storages[tensors[w].storage] = storages[tensors[t].storage]
            /\ ~cuda[tensors[t].storage] => tensors[w].storage = tensors[t].storage

\* A round trip through an order that is not its own inverse, on a tensor whose
\* dimensions differ in size.
C5_Witness ==
    \E w \in 1..Len(tensors) :
        /\ origin[w].src # 0
        /\ origin[origin[w].src].src # 0
        /\ origin[w].order = InverseOrder(origin[origin[w].src].order)
        /\ origin[w].order # origin[origin[w].src].order
        /\ tensors[origin[w].src].shape # tensors[w].shape
        /\ tensors[origin[w].src].strides # tensors[w].strides

\* ============================================================= SpecLayout
\* A tensor built on a list of its own and views of it, with constructions that
\* fail at any moment: any interleaving of constructions, permute calls on any
\* instance and set calls through any instance.
LShapes == {sh \in SeqsUpTo(1..LMaxDim, LMaxDims) : prod(sh) <= LMaxSize} \cup {<<0>>}

\* The list lengths tried for a shape: the right one, one too short, one too long.
LStorageLens(shape) == {n \in {prod(shape) - 1, prod(shape), prod(shape) + 1} : n >= 0}

LVals == {1}

\* A construction that fails leaves no instance behind and is always possible; the
\* one that succeeds is the first.
NextLayout ==
    \/ \E shape \in LShapes :
          \E n \in LStorageLens(shape), sarg \in StridesArgs(shape) :
             /\ TensorData_init(n, shape, sarg).kind = "ok" => storages = <<>>
             /\ Construct(n, shape, sarg)
    \/ \E t \in 1..Len(tensors) :
          /\ Len(tensors) < LMaxTensors
          /\ \E order \in Orders(Len(tensors[t].shape)) : Permute(t, order)
    \/ \E t \in 1..Len(tensors) :
          \E key \in VKeys(tensors[t].shape), val \in LVals : Set(t, key, val)

SpecLayout == InitViews /\ [][NextLayout]_vars

\* Every existing instance has as many strides as dimensions, that number as its
\* dims, and a buffer of exactly prod(shape) numbers.
LayoutConsistent ==
    \A t \in 1..Len(tensors) :
        /\ Len(tensors[t].strides) = Len(tensors[t].shape)
        /\ TensorData_dims(tensors[t]) = Len(tensors[t].shape)
        /\ Len(storages[tensors[t].storage]) = prod(tensors[t].shape)

\* Constructor arguments no consistent instance could be made of.
Inconsistent(n, shape, sarg) ==
    \/ sarg.given /\ Len(sarg.val) # Len(shape)
    \/ n # prod(shape)

\* A construction on inconsistent arguments fails; no instance and no buffer is added.
ConstructRejects ==
    \/ vret'.op # "construct"
    \/ /\ vret'.kind \in {"IndexingError", "AssertionError"}
       /\ tensors' = tensors
       /\ storages' = storages
    \/ \A shape \in LShapes :
          \A n \in LStorageLens(shape), sarg \in StridesArgs(shape) :
             Inconsistent(n, shape, sarg) => ~Construct(n, shape, sarg)

\* C11: in every state reachable by constructions, permute calls and set calls,
\* every existing TensorData has len(strides) = len(shape) = dims and a buffer of
\* prod(shape) numbers (1 for a 0-dimensional shape); a construction whose arguments
\* violate this fails and produces no instance.
C11_LayoutInvariant == [](LayoutConsistent) /\ [][ConstructRejects]_vars

\* A construction has just failed on its assertion while there is a view that
\* reorders the dimensions of another instance, on a buffer that has been written.
C11_Witness ==
    /\ vret = [op |-> "construct", kind |-> "AssertionError"]
    /\ \E v \in 1..Len(tensors) :
          /\ origin[v].src # 0
          /\ tensors[v].shape # tensors[origin[v].src].shape
          /\ \E k \in 1..Len(storages[tensors[v].storage]) :
                storages[tensors[v].storage][k] = 1

\* ============================================================= SpecAccess
\* One call of index, get or set on t = TensorData(list(range(size)), shape) or on
\* the view t.permute(dims-1, ..., 0) of it, which is t itself below 2 dimensions.
AShapes == SeqsUpTo(1..AMaxDim, AMaxDims)
AKeys == {IntKey(i) : i \in -1..AMaxDim}
         \cup {TupleKey(c) : c \in SeqsUpTo(-1..AMaxDim, AMaxDims + 1)}
AVals == {9}

InitAccess ==
    /\ \E shape \in AShapes :
          LET made == TensorData_init(prod(shape), shape, NoStrides)
              t == [storage |-> 1, shape |-> made.shape, strides |-> made.strides]
              order == Reverse(Range(Len(shape)))
              got == TensorData_permute(prod(shape), t, order)
          IN  /\ storages = <<Range(prod(shape))>>
              /\ cuda = <<FALSE>>
              /\ rebound = [k \in 1..(IF got.same THEN 1 ELSE 2) |-> 0]
              /\ IF got.same
                 THEN /\ tensors = <<t>>
                      /\ origin = <<[src |-> 0, order |-> <<>>]>>
                 ELSE /\ tensors = <<t, [storage |-> 1, shape |-> got.shape,
                                         strides |-> got.strides]>>
                      /\ origin = <<[src |-> 0, order |-> <<>>],
                                    [src |-> 1, order |-> order]>>
    /\ vret = [op |-> "permute", kind |-> "ok"]
    /\ apc = "call"
    /\ acall = [op |-> "none", t |-> 0, key |-> TupleKey(<<>>), val |-> 0]
    /\ aret = [kind |-> "none", val |-> 0]
    /\ IdleIndices
    /\ IdleShapeBroadcast
    /\ IdleBroadcastIndex
    /\ IdleScalars

\* tensors[t].index(key)
IndexCall(t, key) ==
    /\ apc = "call"
    /\ apc' = "done"
    /\ acall' = [op |-> "index", t |-> t, key |-> key, val |-> 0]
    /\ LET p == TensorData_index(tensors[t], key) IN aret' = [kind |-> p.kind, val |-> p.pos]
    /\ UNCHANGED <<tvars, ivars, svars, bvars, fvars>>

\* tensors[t].get(key)
GetCall(t, key) ==
    /\ apc = "call"
    /\ apc' = "done"
    /\ acall' = [op |-> "get", t |-> t, key |-> key, val |-> 0]
    /\ aret' = TensorData_get(storages, tensors[t], key)
    /\ UNCHANGED <<tvars, ivars, svars, bvars, fvars>>

\* tensors[t].set(key, val)
SetCall(t, key, val) ==
    /\ apc = "call"
    /\ apc' = "done"
    /\ acall' = [op |-> "set", t |-> t, key |-> key, val |-> val]
    /\ LET done == TensorData_set(storages, tensors[t], key, val) IN
       /\ aret' = [kind |-> done.kind, val |-> 0]
       /\ storages' = done.bufs
    /\ UNCHANGED <<cuda, tensors, origin, rebound, vret, ivars, svars, bvars, fvars>>

NextAccess ==
    \/ /\ apc = "call"
       /\ \E t \in 1..Len(tensors), key \in AKeys : IndexCall(t, key)
    \/ /\ apc = "call"
       /\ \E t \in 1..Len(tensors), key \in AKeys : GetCall(t, key)
    \/ /\ apc = "call"
       /\ \E t \in 1..Len(tensors), key \in AKeys, val \in AVals : SetCall(t, key, val)

SpecAccess == InitAccess /\ [][NextAccess]_vars

\* C6: on a 1-dimensional tensor, index(i) with an int 0 <= i < shape[0] returns
\* i * strides[0], as index((i,)) does, without raising.
C6_IntIndexAccepted ==
    (/\ apc = "done"
     /\ acall.op = "index"
     /\ acall.key.int
     /\ Len(tensors[acall.t].shape) = 1
     /\ 0 <= acall.key.items[1]
     /\ acall.key.items[1] < tensors[acall.t].shape[1]) =>
        /\ aret = [kind |-> "ok", val |-> acall.key.items[1] * tensors[acall.t].strides[1]]
        /\ LET p == TensorData_index(tensors[acall.t], TupleKey(acall.key.items))
           IN  aret = [kind |-> p.kind, val |-> p.pos]

\* A coordinate that is not valid for `shape`: its length differs from the number of
\* dimensions, or a component is negative or not below the size of its dimension.
InvalidCoord(shape, c) ==
    \/ Len(c) # Len(shape)
    \/ \E d \in 1..Len(c) : c[d] < 0 \/ (d <= Len(shape) /\ c[d] >= shape[d])

\* C8: an index, get or set call with an invalid coordinate fails with IndexingError
\* and changes neither the buffer nor the shape and strides of any instance, the
\* views on the same buffer included.
C8_InvalidCoordinateFails ==
    [][(/\ apc = "call"
        /\ apc' = "done"
        /\ InvalidCoord(tensors[acall'.t].shape, acall'.key.items)) =>
          /\ aret'.kind = "IndexingError"
          /\ storages' = storages
          /\ tensors' = tensors]_vars

\* A set through a transposed view, with a component that is in range for the
\* source and out of range for the view, has failed.
C8_Witness ==
    /\ apc = "done"
    /\ acall.op = "set"
    /\ origin[acall.t].src # 0
    /\ tensors[acall.t].shape = <<2, 1>>
    /\ acall.key = TupleKey(<<0, 1>>)
    /\ aret.kind = "IndexingError"
    /\ storages = <<Range(2)>>

\* ============================================================= SpecScalar
\* Python numbers: a float or an int of value n.
Float(n) == [float |-> TRUE, n |-> n]
PyInt(n) == [float |-> FALSE, n |-> n]

\* An operand of apply: an existing Scalar, by identity, or a bare number.
ScalarArg(id) == [scalar |-> TRUE, id |-> id, num |-> Float(0)]
NumArg(x) == [scalar |-> FALSE, id |-> 0, num |-> x]

\* ScalarHistory(): the history of a leaf.
NoHistory == [last_fn |-> "None", ctx |-> 0, inputs |-> <<>>]

\* minitorch.scalar.Scalar(v, back): data = float(v), history = back.
Scalar_new(v, back) == [data |-> Float(v.n), history |-> back]

\* for v in vals: a Scalar is appended to `scalars` and its data to raw_vals; a bare
\* number is wrapped in a new Scalar and appended to raw_vals as it is.
\* `arena` are the Scalar objects that exist, `ids` is `scalars`, `raws` raw_vals.
RECURSIVE apply_wrap(_, _, _, _, _)
apply_wrap(vals, k, arena, ids, raws) ==
    IF k > Len(vals) THEN [arena |-> arena, scalars |-> ids, raw_vals |-> raws]
    ELSE IF vals[k].scalar
         THEN apply_wrap(vals, k + 1, arena,
                         Append(ids, vals[k].id), Append(raws, arena[vals[k].id].data))
         ELSE apply_wrap(vals, k + 1, Append(arena, Scalar_new(vals[k].num, NoHistory)),
                         Append(ids, Len(arena) + 1), Append(raws, vals[k].num))

\* cls._forward(ctx, *raw_vals) for Add, Mul and Neg: [kind, c, saved], saved the
\* ctx.saved_values afterwards; "TypeError" when the number of arguments is wrong.
\* The result of + and * is a float when an operand is one.
forward(fn, raws) ==
    IF Len(raws) # (IF fn = "Neg" THEN 1 ELSE 2)
    THEN [kind |-> "TypeError", c |-> Float(0), saved |-> <<>>]
    ELSE IF fn = "Add"
         THEN [kind |-> "ok",
               c |-> [float |-> raws[1].float \/ raws[2].float, n |-> raws[1].n + raws[2].n],
               saved |-> <<>>]
    ELSE IF fn = "Mul"
         THEN [kind |-> "ok",
               c |-> [float |-> raws[1].float \/ raws[2].float, n |-> raws[1].n * raws[2].n],
               saved |-> raws]
    ELSE [kind |-> "ok", c |-> [float |-> raws[1].float, n |-> 0 - raws[1].n], saved |-> <<>>]

\* An apply that records the operands in reverse order.
ScalarFunction_apply_reversed(arena, ctxs, fn, vals) ==
    LET w == apply_wrap(vals, 1, arena, <<>>, <<>>)
        f == forward(fn, w.raw_vals)
    IN  IF f.kind # "ok"
        THEN [kind |-> f.kind, arena |-> arena, contexts |-> ctxs, result |-> 0]
        ELSE IF ~f.c.float
             THEN [kind |-> "AssertionError", arena |-> arena, contexts |-> ctxs, result |-> 0]
             ELSE [kind |-> "ok",
                   arena |-> Append(w.arena,
                                    Scalar_new(f.c, [last_fn |-> fn,
                                                     ctx |-> Len(ctxs) + 1,
                                                     inputs |-> Reverse(w.scalars)])),
                   contexts |-> Append(ctxs, f.saved),
                   result |-> Len(w.arena) + 1]

\* The outcome of cls.apply(*vals) with the Scalar objects `arena` and the Context
\* objects `ctxs`: [kind, arena, contexts, result].  When forward raises or its
\* result is no float, apply raises: the Scalars and the Context it had created are
\* referenced by nothing and are not kept.
ScalarFunction_apply(arena, ctxs, fn, vals) ==
    LET w == apply_wrap(vals, 1, arena, <<>>, <<>>)
        f == forward(fn, w.raw_vals)
    IN  IF f.kind # "ok"
        THEN [kind |-> f.kind, arena |-> arena, contexts |-> ctxs, result |-> 0]
        ELSE IF ~f.c.float
             THEN [kind |-> "AssertionError", arena |-> arena, contexts |-> ctxs, result |-> 0]
             ELSE [kind |-> "ok",
                   arena |-> Append(w.arena,
                                    Scalar_new(f.c, [last_fn |-> fn,
                                                     ctx |-> Len(ctxs) + 1,
                                                     inputs |-> w.scalars])),
                   contexts |-> Append(ctxs, f.saved),
                   result |-> Len(w.arena) + 1]

Fns == {"Add", "Mul", "Neg"}
Nums == {Float(1), PyInt(2)}
Operands == {ScalarArg(id) : id \in 1..Len(scalars)} \cup {NumArg(x) : x \in Nums}

\* The number of bare numbers among the operands.
RECURSIVE Bare(_)
Bare(vals) == IF Len(vals) = 0 THEN 0
              ELSE (IF vals[1].scalar THEN 0 ELSE 1) + Bare(Tail(vals))

InitScalar ==
    /\ scalars = <<>>
    /\ contexts = <<>>
    /\ fcall = [fn |-> "none", vals |-> <<>>]
    /\ fret = [kind |-> "none", result |-> 0]
    /\ IdleIndices
    /\ IdleShapeBroadcast
    /\ IdleBroadcastIndex
    /\ IdleTensors
    /\ IdleAccess

\* fn.apply(*vals)
Apply(fn, vals) ==
    /\ Len(scalars) + Bare(vals) + 1 <= FMaxScalars
    /\ LET got == ScalarFunction_apply(scalars, contexts, fn, vals) IN
       /\ scalars' = got.arena
       /\ contexts' = got.contexts
       /\ fcall' = [fn |-> fn, vals |-> vals]
       /\ fret' = [kind |-> got.kind, result |-> got.result]
    /\ UNCHANGED <<ivars, svars, bvars, tvars, avars>>

NextScalar ==
    \E fn \in Fns : \E vals \in SeqsUpTo(Operands, 2) \ {<<>>} : Apply(fn, vals)

SpecScalar == InitScalar /\ [][NextScalar]_vars

\* Every value referenced by a History was created before the value that carries it.
HistoryPointsBack ==
    \A v \in 1..Len(scalars) :
        \A k \in 1..Len(scalars[v].history.inputs) :
            scalars[v].history.inputs[k] \in 1..(v - 1)

\* A step changes no existing value; a step in which apply returns creates, after
\* the leaves of its bare operands, one computed value whose History holds the
\* function applied, a Context no other value holds, and the operands in argument
\* order, each bare number replaced by a leaf created in this step.
ApplyOnlyAdds ==
    /\ Len(scalars') >= Len(scalars)
    /\ \A i \in 1..Len(scalars) : scalars'[i] = scalars[i]
    /\ (fcall'.fn \in Fns /\ fret'.kind # "ok") => scalars' = scalars
    /\ (fcall'.fn \in Fns /\ fret'.kind = "ok") =>
          LET new == scalars'[Len(scalars')]
              vals == fcall'.vals
          IN  /\ fret'.result = Len(scalars')
              /\ Len(scalars') = Len(scalars) + Bare(vals) + 1
              /\ \A i \in (Len(scalars) + 1)..(Len(scalars') - 1) :
                    scalars'[i].history = NoHistory
              /\ new.history.last_fn = fcall'.fn
              /\ new.history.ctx \in 1..Len(contexts')
              /\ \A i \in 1..(Len(scalars') - 1) : scalars'[i].history.ctx # new.history.ctx
              /\ Len(new.history.inputs) = Len(vals)
              /\ \A k \in 1..Len(vals) :
                    IF vals[k].scalar
                    THEN new.history.inputs[k] = vals[k].id
                    ELSE /\ new.history.inputs[k] \in (Len(scalars) + 1)..(Len(scalars') - 1)
                         /\ scalars'[new.history.inputs[k]] =
                               [data |-> Float(vals[k].num.n), history |-> NoHistory]
                         /\ \A j \in 1..Len(vals) :
                               j # k => new.history.inputs[j] # new.history.inputs[k]

\* C9: apply mutates no existing value and creates one new computed value whose
\* History holds the function, a fresh context and the operands in argument order
\* (bare numbers replaced by new leaves); so every value referenced by a History
\* was created strictly before the value carrying it, and the graph has no cycle.
C9_ApplyBuildsAcyclicHistory == [](HistoryPointsBack) /\ [][ApplyOnlyAdds]_vars

\* A computed value built from an earlier computed value and a bare number.
C9_Witness ==
    \E v \in 1..Len(scalars) :
        /\ fret = [kind |-> "ok", result |-> v]
        /\ Len(scalars[v].history.inputs) = 2
        /\ scalars[scalars[v].history.inputs[1]].history.last_fn \in Fns
        /\ scalars[scalars[v].history.inputs[2]].history = NoHistory
        /\ scalars[v].history.inputs[2] = v - 1
        /\ ~fcall.vals[2].scalar

====
